---------------------------- MODULE Spec2Model ----------------------------
(***************************************************************************)
(* Bouncing balls: the closed-form single-ball integrator of               *)
(* src/src/simulation.ts and the animation glue of src/src/index.ts.       *)
(*                                                                         *)
(* Numbers.  A JavaScript number is modelled as an exact rational <<n, d>> *)
(* in lowest terms with d > 0, extended with the three IEEE specials       *)
(*     <<1, 0>> = +Infinity    <<-1, 0>> = -Infinity    <<0, 0>> = NaN      *)
(* and the IEEE rules for them (NaN is contagious and compares false,      *)
(* 0/0 = Inf - Inf = 0 * Inf = NaN, x/0 = +-Infinity, log(0) = -Infinity). *)
(* Rounding is not modelled: every finite result is the exact real one.    *)
(* The sign of zero is not modelled either (-0 and 0 are one value; they   *)
(* compare equal in the code, and 0/0 and 0/-0 are both NaN).              *)
(* Math.sqrt is exact on the squares of rationals; the inputs are drawn so *)
(* that every discriminant is one, and kinematics keeps it so (the         *)
(* discriminant y'^2 - 2 y'' y is conserved in flight).                    *)
(***************************************************************************)
EXTENDS Integers, Sequences, FiniteSets, TLC

VARIABLES
    \* ---- integrator harness (simulateSingleBall applied tick after tick)
    ball,       \* the ball, [x, y, x', y']
    prev,       \* the ball passed to the last simulateSingleBall call
    seconds,    \* the seconds passed to the last call
    outcome,    \* "none" before any call; "returned" / "thrown" after one
    branch,     \* the branch the last call took
    nbCalls,    \* the <<reboundVelocity, period>> of each call the last
                \* simulateSingleBall made to numberOfBouncesInPeriod
    ticks,      \* number of calls so far
    \* ---- trajectory-math harness (one call of one pure function)
    fn,         \* "none", or the function that was called
    arg,        \* its arguments
    ret,        \* what it returned
    \* ---- UserInterface (src/src/index.ts)
    balls,          \* this.balls
    width,          \* this.canvas.width
    callbackId,     \* this.callbackId: 0 when unset/null, else the frame id
    lastTimestamp,  \* this.lastTimestamp: 0 when unset/null, else ms
    now,            \* Date.now(), ms
    pending,        \* ids of the animation-frame callbacks requested, not yet run
    nextId,         \* the id the next requestAnimationFrame returns
    drawn,          \* the balls handed to the last drawBalls and the width then
    lastOp          \* the last UserInterface operation that ran

vars == <<ball, prev, seconds, outcome, branch, nbCalls, ticks, fn, arg, ret,
          balls, width, callbackId, lastTimestamp, now, pending, nextId,
          drawn, lastOp>>

simVars  == <<ball, prev, seconds, outcome, branch, nbCalls, ticks>>
mathVars == <<fn, arg, ret>>
uiVars   == <<balls, width, callbackId, lastTimestamp, now, pending, nextId,
              drawn, lastOp>>

----------------------------------------------------------------------------
(* JavaScript numbers *)

NaN    == <<0, 0>>
PosInf == <<1, 0>>
NegInf == <<-1, 0>>

Abs(i) == IF i < 0 THEN -i ELSE i
Sgn(i) == IF i < 0 THEN -1 ELSE IF i = 0 THEN 0 ELSE 1

RECURSIVE GCD(_, _)
GCD(a, b) == IF b = 0 THEN a ELSE GCD(b, a % b)

\* n/d in lowest terms, d # 0
R(n, d) ==
    LET g == GCD(Abs(n), Abs(d))
    IN  <<Sgn(d) * (n \div g), Abs(d) \div g>>

I(n) == <<n, 1>>
Zero == <<0, 1>>
One  == <<1, 1>>

IsNaN(a)    == a = NaN
IsFinite(a) == a[2] # 0
IsInf(a)    == a = PosInf \/ a = NegInf
IsZero(a)   == a = Zero

Neg(a) == <<-a[1], a[2]>>

Add(a, b) ==
    IF IsNaN(a) \/ IsNaN(b) THEN NaN
    ELSE IF IsInf(a) THEN (IF IsInf(b) /\ b # a THEN NaN ELSE a)
    ELSE IF IsInf(b) THEN b
    ELSE IF a[2] = b[2]
         THEN (IF a[2] = 1 THEN <<a[1] + b[1], 1>> ELSE R(a[1] + b[1], a[2]))
    ELSE LET g == GCD(a[2], b[2])
         IN  R(a[1] * (b[2] \div g) + b[1] * (a[2] \div g), (a[2] \div g) * b[2])

Sub(a, b) == Add(a, Neg(b))

Mul(a, b) ==
    IF IsNaN(a) \/ IsNaN(b) THEN NaN
    ELSE IF IsInf(a) \/ IsInf(b)
         THEN (IF IsZero(a) \/ IsZero(b) THEN NaN
               ELSE <<Sgn(a[1]) * Sgn(b[1]), 0>>)
    ELSE IF a[2] = 1 /\ b[2] = 1 THEN <<a[1] * b[1], 1>>
    ELSE IF a[1] = 0 \/ b[1] = 0 THEN Zero
    ELSE LET g1 == GCD(Abs(a[1]), b[2])
             g2 == GCD(Abs(b[1]), a[2])
         IN  <<(a[1] \div g1) * (b[1] \div g2), (a[2] \div g2) * (b[2] \div g1)>>

Inv(a) ==
    IF IsNaN(a) THEN NaN
    ELSE IF IsInf(a) THEN Zero
    ELSE IF IsZero(a) THEN PosInf
    ELSE <<Sgn(a[1]) * a[2], Abs(a[1])>>

Div(a, b) == Mul(a, Inv(b))

\* a < b; false when either is NaN
Lt(a, b) ==
    /\ ~IsNaN(a)
    /\ ~IsNaN(b)
    /\ IF IsInf(a) /\ IsInf(b) THEN a[1] < b[1]
       ELSE a[1] * b[2] < b[1] * a[2]

Gt(a, b) == Lt(b, a)
Le(a, b) == ~IsNaN(a) /\ ~IsNaN(b) /\ ~Lt(b, a)
Ge(a, b) == Le(b, a)

\* a === b
StrictEq(a, b) == ~IsNaN(a) /\ ~IsNaN(b) /\ a = b

\* !a for a number | undefined | null, with 0 standing for undefined/null
Falsy(i) == i = 0

\* the largest s in lo..hi with s * s <= n, by bisection (lo * lo <= n)
RECURSIVE SqrtSearch(_, _, _)
SqrtSearch(n, lo, hi) ==
    IF lo = hi THEN lo
    ELSE LET mid == (lo + hi + 1) \div 2
         IN  IF mid * mid <= n THEN SqrtSearch(n, mid, hi)
             ELSE SqrtSearch(n, lo, mid - 1)

\* 46340 is the largest integer whose square is below 2^31
SqrtFloor(n) ==
    SqrtSearch(n, 0, IF n < 1024 THEN 32
                     ELSE IF n < 1048576 THEN 1024
                     ELSE 46340)
IsSquareInt(n) == SqrtFloor(n) * SqrtFloor(n) = n
SqrtInt(n)     == CHOOSE s \in {SqrtFloor(n)} : s * s = n

IsSquare(a) == IsFinite(a) /\ a[1] >= 0 /\ IsSquareInt(a[1]) /\ IsSquareInt(a[2])

\* Math.sqrt, exact on squares of rationals (undefined on other finite a >= 0)
Sqrt(a) ==
    IF IsNaN(a) \/ Lt(a, Zero) THEN NaN
    ELSE IF a = PosInf THEN PosInf
    ELSE <<SqrtInt(a[1]), IF a[2] = 1 THEN 1 ELSE SqrtInt(a[2])>>

RECURSIVE PowNat(_, _)
PowNat(b, k) == IF k = 0 THEN One ELSE Mul(b, PowNat(b, k - 1))

\* Math.pow(b, e) for finite b > 0 and e an integer, +-Infinity or NaN
Pow(b, e) ==
    IF IsNaN(e) THEN NaN
    ELSE IF IsInf(e)
         THEN (IF b = One THEN NaN
               ELSE IF Lt(b, One) = (e = PosInf) THEN Zero ELSE PosInf)
    ELSE IF e[2] = 1
         THEN (IF e[1] >= 0 THEN PowNat(b, e[1]) ELSE PowNat(Inv(b), -e[1]))
    ELSE CHOOSE z \in {} : TRUE

RECURSIVE LogDown(_, _, _)
LogDown(q, r, k) ==
    \* largest k' >= k with r^k' >= q, given r^k >= q and 0 < r < 1, q > 0
    IF Ge(Mul(PowNat(r, k), r), q) THEN LogDown(q, r, k + 1) ELSE k

RECURSIVE LogUp(_, _, _)
LogUp(q, r, k) ==
    \* least k' >= k with (1/r)^k' >= q, given 0 < r < 1
    IF Ge(PowNat(Inv(r), k), q) THEN k ELSE LogUp(q, r, k + 1)

\* Math.floor(Math.log(q) / Math.log(r)) for a finite r with 0 < r < 1:
\* the integer n with r^n >= q > r^(n+1) when 0 < q < Infinity
FloorLogRatio(q, r) ==
    IF IsNaN(q) \/ Lt(q, Zero) THEN NaN      \* log of a negative is NaN
    ELSE IF IsZero(q) THEN PosInf            \* -Infinity / negative
    ELSE IF q = PosInf THEN NegInf           \* +Infinity / negative
    ELSE IF Le(q, One) THEN I(LogDown(q, r, 0))
    ELSE I(-LogUp(q, r, 0))

----------------------------------------------------------------------------
(* src/src/simulation.ts *)

COEFFICIENT_OF_RESTITUTION == <<1, 2>>
GRAVITY == -1000

G == I(GRAVITY)

\* timeToImpact taking the other root of the quadratic
timeToImpact_OtherRoot(b) ==
    Div(Add(Neg(b[4]),
            Sqrt(Sub(Mul(b[4], b[4]), Mul(Mul(I(2), G), b[2])))),
        G)

timeToImpact(b) ==
    LET y  == b[2]
        y_ == b[4]
    IN  Div(Sub(Neg(y_),
                Sqrt(Sub(Mul(y_, y_), Mul(Mul(I(2), G), y)))),
            G)

flightTimeThisBounce(reboundVelocity) ==
    Div(Mul(I(2), reboundVelocity), Neg(G))

timeToStillness(reboundVelocity) ==
    Mul(flightTimeThisBounce(reboundVelocity),
        Add(One, Div(COEFFICIENT_OF_RESTITUTION,
                     Sub(One, COEFFICIENT_OF_RESTITUTION))))

timeForNBounces(reboundVelocity, bounces) ==
    IF StrictEq(bounces, Zero) THEN Zero
    ELSE Div(Mul(flightTimeThisBounce(reboundVelocity),
                 Pow(Sub(One, COEFFICIENT_OF_RESTITUTION), bounces)),
             Sub(One, COEFFICIENT_OF_RESTITUTION))

\* numberOfBouncesInPeriod without the (1 - r) factor of the series
numberOfBouncesInPeriod_NoFactor(reboundVelocity, period) ==
    FloorLogRatio(
        Sub(One, Div(period, flightTimeThisBounce(reboundVelocity))),
        COEFFICIENT_OF_RESTITUTION)

numberOfBouncesInPeriod(reboundVelocity, period) ==
    FloorLogRatio(
        Sub(One, Div(Mul(Sub(One, COEFFICIENT_OF_RESTITUTION), period),
                     flightTimeThisBounce(reboundVelocity))),
        COEFFICIENT_OF_RESTITUTION)

\* simulateWithoutImpacts with gravity applied to x' as well as to y'
simulateWithoutImpacts_GravityOnX(b, secs) ==
    <<Add(b[1], Mul(b[3], secs)),
      Add(Add(b[2], Mul(b[4], secs)), Mul(Mul(Mul(<<1, 2>>, G), secs), secs)),
      Add(b[3], Mul(G, secs)),
      Add(b[4], Mul(G, secs))>>

simulateWithoutImpacts(b, secs) ==
    LET x  == b[1]
        y  == b[2]
        x_ == b[3]
        y_ == b[4]
    IN  <<Add(x, Mul(x_, secs)),
          Add(Add(y, Mul(y_, secs)), Mul(Mul(Mul(<<1, 2>>, G), secs), secs)),
          x_,
          Add(y_, Mul(G, secs))>>

\* The returned ball, with the branch taken and the calls made to
\* numberOfBouncesInPeriod.
simulateAfterImpact(b, secs) ==
    LET x  == b[1]
        x_ == b[3]
        reboundVelocity == b[4]
    IN  IF Lt(timeToStillness(reboundVelocity), secs)
        THEN [ball   |-> <<Add(x, Mul(x_, secs)), Zero, x_, Zero>>,
              branch |-> "stillness",
              calls  |-> <<>>]
        ELSE LET bounces    == numberOfBouncesInPeriod(reboundVelocity, secs)
                 bounceTime == timeForNBounces(reboundVelocity, bounces)
             IN  [ball   |-> simulateWithoutImpacts(
                                 <<Add(x, Mul(x_, bounceTime)),
                                   Zero,
                                   x_,
                                   Mul(reboundVelocity,
                                       Pow(COEFFICIENT_OF_RESTITUTION, bounces))>>,
                                 Sub(secs, bounceTime)),
                  branch |-> "bounceSkip",
                  calls  |-> << <<reboundVelocity, secs>> >>]

\* simulateSingleBall restarting from the ball's own x at the impact, so that
\* the horizontal travel up to the impact is lost
simulateSingleBall_StaleX(b, secs) ==
    LET tti == timeToImpact(b)
    IN  IF Gt(tti, secs)
        THEN [ball   |-> simulateWithoutImpacts(b, secs),
              branch |-> "noImpact",
              calls  |-> <<>>]
        ELSE LET atImpact == simulateWithoutImpacts(b, tti)
             IN  simulateAfterImpact(
                     <<b[1], atImpact[2], atImpact[3],
                       Mul(Neg(COEFFICIENT_OF_RESTITUTION), atImpact[4])>>,
                     Sub(secs, tti))

simulateSingleBall(b, secs) ==
    LET tti == timeToImpact(b)
    IN  IF Gt(tti, secs)
        THEN [ball   |-> simulateWithoutImpacts(b, secs),
              branch |-> "noImpact",
              calls  |-> <<>>]
        ELSE LET atImpact == simulateWithoutImpacts(b, tti)
             IN  simulateAfterImpact(
                     <<atImpact[1], atImpact[2], atImpact[3],
                       Mul(Neg(COEFFICIENT_OF_RESTITUTION), atImpact[4])>>,
                     Sub(secs, tti))

\* simulateManyBalls returns the balls only
RECURSIVE simulateManyBalls(_, _)
simulateManyBalls(bs, secs) ==
    IF bs = <<>> THEN <<>>
    ELSE <<simulateSingleBall(Head(bs), secs).ball>>
             \o simulateManyBalls(Tail(bs), secs)

----------------------------------------------------------------------------
(* Inputs *)

MaxTicks       == 2     \* simulateSingleBall calls in a row
MaxHalfSeconds == 8     \* seconds range over 0, 1/2, ..., MaxHalfSeconds/2
MaxHeight      == 4     \* y ranges over 0, 500, ..., 500 * MaxHeight
MaxSpeed       == 2     \* y' ranges over -500 * MaxSpeed, ..., 500 * MaxSpeed

Seconds == {R(k, 2) : k \in 0..MaxHalfSeconds}
Xs      == {I(1000)}
VXs     == {I(-3), I(0), I(1)}
Ys      == {I(500 * k) : k \in 0..MaxHeight}
VYs     == {I(500 * k) : k \in -MaxSpeed..MaxSpeed}

Discriminant(b) == Sub(Mul(b[4], b[4]), Mul(Mul(I(2), G), b[2]))

AllFinite(b) == \A i \in 1..4 : IsFinite(b[i])

\* a ball the integrator is specified for: finite, on or above the floor
Valid(b) == AllFinite(b) /\ Ge(b[2], Zero)

ValidBalls ==
    {b \in Xs \X Ys \X VXs \X VYs : IsSquare(Discriminant(b))}

\* balls with a NaN or infinite component
InvalidBalls ==
    { <<NaN, I(500), I(1), Zero>>,
      <<I(1000), NaN, I(1), Zero>>,
      <<I(1000), I(500), NaN, Zero>>,
      <<I(1000), I(500), I(1), NaN>>,
      <<PosInf, I(500), I(1), Zero>>,
      <<I(1000), PosInf, I(1), Zero>>,
      <<I(1000), I(500), I(1), NegInf>> }

----------------------------------------------------------------------------
(* Integrator harness: Spec *)

SimIdle ==
    /\ ball = <<Zero, Zero, Zero, Zero>>
    /\ prev = ball
    /\ seconds = Zero
    /\ outcome = "none"
    /\ branch = "none"
    /\ nbCalls = <<>>
    /\ ticks = 0

MathIdle ==
    /\ fn = "none"
    /\ arg = <<>>
    /\ ret = Zero

UIIdle ==
    /\ balls = <<>>
    /\ width = 0
    /\ callbackId = 0
    /\ lastTimestamp = 0
    /\ now = 0
    /\ pending = {}
    /\ nextId = 1
    /\ drawn = [integrated |-> <<>>, balls |-> <<>>, width |-> 0]
    /\ lastOp = "none"

Init ==
    /\ ball \in ValidBalls \cup InvalidBalls
    /\ prev = ball
    /\ seconds = Zero
    /\ outcome = "none"
    /\ branch = "none"
    /\ nbCalls = <<>>
    /\ ticks = 0
    /\ MathIdle
    /\ UIIdle

\* one call ball = simulateSingleBall(ball, dt); the function has no throw
Tick ==
    /\ ticks < MaxTicks
    /\ \E dt \in Seconds :
          LET r == simulateSingleBall(ball, dt)
          IN  /\ ball' = r.ball
              /\ prev' = ball
              /\ seconds' = dt
              /\ outcome' = "returned"
              /\ branch' = r.branch
              /\ nbCalls' = r.calls
    /\ ticks' = ticks + 1
    /\ UNCHANGED <<mathVars, uiVars>>

Next == Tick

Spec == Init /\ [][Next]_vars

Stepped == outcome # "none"

----------------------------------------------------------------------------
(* Claims about simulateSingleBall, checked under Spec *)

\* the speed at which b reaches the floor, times the restitution coefficient
ReboundSpeed(b) == Mul(COEFFICIENT_OF_RESTITUTION, Sqrt(Discriminant(b)))

\* C1: a ball with y >= 0 advanced by any dt >= 0 comes back with y >= 0,
\* whatever branch is taken.
C1_FloorImpenetrable ==
    (Stepped /\ Valid(prev)) => Ge(ball[2], Zero)

\* C2: a valid ball that reaches the floor within dt and whose bounce train
\* settles in the time left comes back as exactly (x + vx*dt, 0, vx, 0); in
\* particular a ball at rest on the floor advanced by dt > 0 stays at rest.
C2_SettledExactly ==
    (Stepped /\ Valid(prev)) =>
        /\ (/\ Le(timeToImpact(prev), seconds)
            /\ Lt(timeToStillness(ReboundSpeed(prev)),
                  Sub(seconds, timeToImpact(prev))))
           => ball = <<Add(prev[1], Mul(prev[3], seconds)), Zero, prev[3], Zero>>
        /\ (IsZero(prev[2]) /\ IsZero(prev[4]) /\ Gt(seconds, Zero))
           => ball = <<Add(prev[1], Mul(prev[3], seconds)), Zero, prev[3], Zero>>

\* C2 witness: a ball dropped from above the floor, drifting horizontally,
\* has settled within the tick.
C2_Witness ==
    /\ Stepped
    /\ Valid(prev)
    /\ branch = "stillness"
    /\ Gt(prev[2], Zero)
    /\ ~IsZero(prev[3])
    /\ Lt(timeToStillness(ReboundSpeed(prev)), Sub(seconds, timeToImpact(prev)))

\* C3: the returned ball's horizontal velocity is the input ball's, for
\* every valid ball and dt >= 0.
C3_HorizontalVelocityKept ==
    (Stepped /\ Valid(prev)) => ball[3] = prev[3]

\* C3 witness: a drifting ball came back through the bounce-skip branch
\* with at least one bounce skipped.
C3_Witness ==
    /\ Stepped
    /\ Valid(prev)
    /\ ~IsZero(prev[3])
    /\ branch = "bounceSkip"
    /\ Len(nbCalls) = 1
    /\ Ge(numberOfBouncesInPeriod(nbCalls[1][1], nbCalls[1][2]), One)

\* C4: simulateSingleBall(ball, 0) returns a valid ball unchanged in all
\* four components, balls on the floor with vy <= 0 included.
C4_ZeroSecondsIdentity ==
    (Stepped /\ Valid(prev) /\ IsZero(seconds)) => ball = prev

\* C8: a ball with a NaN or non-finite component makes the call signal an
\* error and return no ball.
C8_InvalidStateSignalled ==
    (Stepped /\ ~AllFinite(prev)) => outcome = "thrown"

\* C10: for a valid ball simulateSingleBall never calls
\* numberOfBouncesInPeriod with reboundVelocity = 0.
C10_NoZeroReboundBounceCount ==
    (Stepped /\ Valid(prev)) =>
        \A i \in DOMAIN nbCalls : ~IsZero(nbCalls[i][1])

----------------------------------------------------------------------------
(* Trajectory-math harness: SpecMath *)

MaxBounces == 5     \* bounces range over 0..MaxBounces
MaxEighths == 16    \* periods range over 0, 1/8, ..., MaxEighths/8
MaxRebound == 4     \* rebound velocities range over 0, 250, ..., 250 * MaxRebound

Rebounds == {I(250 * k) : k \in 0..MaxRebound}
Bounces  == {I(k) : k \in 0..MaxBounces}
Periods  == {R(k, 8) : k \in 0..MaxEighths}

InitMath ==
    /\ SimIdle
    /\ MathIdle
    /\ UIIdle

CallTimeToImpact ==
    /\ fn = "none"
    /\ \E b \in ValidBalls :
          /\ arg' = <<b>>
          /\ ret' = timeToImpact(b)
    /\ fn' = "timeToImpact"
    /\ UNCHANGED <<simVars, uiVars>>

CallFlightTimeThisBounce ==
    /\ fn = "none"
    /\ \E v \in Rebounds :
          /\ arg' = <<v>>
          /\ ret' = flightTimeThisBounce(v)
    /\ fn' = "flightTimeThisBounce"
    /\ UNCHANGED <<simVars, uiVars>>

CallTimeToStillness ==
    /\ fn = "none"
    /\ \E v \in Rebounds :
          /\ arg' = <<v>>
          /\ ret' = timeToStillness(v)
    /\ fn' = "timeToStillness"
    /\ UNCHANGED <<simVars, uiVars>>

CallTimeForNBounces ==
    /\ fn = "none"
    /\ \E v \in Rebounds, n \in Bounces :
          /\ arg' = <<v, n>>
          /\ ret' = timeForNBounces(v, n)
    /\ fn' = "timeForNBounces"
    /\ UNCHANGED <<simVars, uiVars>>

CallNumberOfBouncesInPeriod ==
    /\ fn = "none"
    /\ \E v \in Rebounds, p \in Periods :
          /\ arg' = <<v, p>>
          /\ ret' = numberOfBouncesInPeriod(v, p)
    /\ fn' = "numberOfBouncesInPeriod"
    /\ UNCHANGED <<simVars, uiVars>>

NextMath ==
    \/ CallTimeToImpact
    \/ CallFlightTimeThisBounce
    \/ CallTimeToStillness
    \/ CallTimeForNBounces
    \/ CallNumberOfBouncesInPeriod

SpecMath == InitMath /\ [][NextMath]_vars

----------------------------------------------------------------------------
(* Claims about the trajectory math, checked under SpecMath *)

\* r^0 + r^1 + ... + r^(n-1)
RECURSIVE GeometricSum(_, _)
GeometricSum(r, n) ==
    IF n = 0 THEN Zero ELSE Add(GeometricSum(r, n - 1), PowNat(r, n - 1))

\* the summed flight time of the first n decaying bounces
BounceTrainTime(v, n) ==
    Mul(flightTimeThisBounce(v), GeometricSum(COEFFICIENT_OF_RESTITUTION, n))

\* C5: for v > 0 and an integer n >= 0, timeForNBounces(v, n) is the
\* cumulative time of the first n bounces, the finite geometric sum
\* flightTimeThisBounce(v) * (r^0 + ... + r^(n-1)).
C5_CumulativeBounceTime ==
    (fn = "timeForNBounces" /\ Gt(arg[1], Zero)) =>
        ret = BounceTrainTime(arg[1], arg[2][1])

\* C6: for v > 0 and 0 <= period < timeToStillness(v),
\* numberOfBouncesInPeriod(v, period) is the largest integer n >= 0 whose
\* first n bounces fit in period; it is 0 below one flight time and 1 at
\* exactly one flight time.
C6_LargestBounceCountThatFits ==
    (/\ fn = "numberOfBouncesInPeriod"
     /\ Gt(arg[1], Zero)
     /\ Lt(arg[2], timeToStillness(arg[1])))
    => /\ IsFinite(ret)
       /\ ret[2] = 1
       /\ ret[1] >= 0
       /\ Le(BounceTrainTime(arg[1], ret[1]), arg[2])
       /\ Gt(BounceTrainTime(arg[1], ret[1] + 1), arg[2])
       /\ (Lt(arg[2], flightTimeThisBounce(arg[1])) => ret = Zero)
       /\ (arg[2] = flightTimeThisBounce(arg[1]) => ret = One)

\* C6 witness: a period that holds two whole bounces and not the third.
C6_Witness ==
    /\ fn = "numberOfBouncesInPeriod"
    /\ Gt(arg[1], Zero)
    /\ Lt(arg[2], timeToStillness(arg[1]))
    /\ Gt(arg[2], BounceTrainTime(arg[1], 2))
    /\ ret = I(2)

\* C7: for a ball with y >= 0, timeToImpact returns t >= 0 with
\* y + vy*t + (1/2)*g*t^2 = 0; from the floor moving upward it is
\* flightTimeThisBounce(vy).
C7_ImpactTimeSolvesQuadratic ==
    (fn = "timeToImpact" /\ Valid(arg[1])) =>
        LET y  == arg[1][2]
            vy == arg[1][4]
        IN  /\ Ge(ret, Zero)
            /\ Add(Add(y, Mul(vy, ret)),
                   Mul(Mul(<<1, 2>>, G), Mul(ret, ret))) = Zero
            /\ (IsZero(y) /\ Gt(vy, Zero)) => ret = flightTimeThisBounce(vy)

\* C7 witness: a ball above the floor moving upward, whose impact lies later
\* than the flight time of a launch from the floor at its speed.
C7_Witness ==
    /\ fn = "timeToImpact"
    /\ Valid(arg[1])
    /\ Gt(arg[1][2], Zero)
    /\ Gt(arg[1][4], Zero)
    /\ Gt(ret, flightTimeThisBounce(arg[1][4]))

----------------------------------------------------------------------------
(* src/src/index.ts *)

SCATTER == 250

InView(b, w) == Gt(b[1], Zero) /\ Lt(b[1], I(w))

\* garbageCollect keeping the balls with 0 <= x < canvas.width
garbageCollect_KeepsLeftEdge(w, bs) ==
    SelectSeq(bs, LAMBDA b : Ge(b[1], Zero) /\ Lt(b[1], I(w)))

garbageCollect(w, bs) == SelectSeq(bs, LAMBDA b : InView(b, w))

\* g1, g2: what the two gaussianApproximation() calls return
addBall(bs, x, y, g1, g2) ==
    Append(bs, <<x, y, Mul(I(SCATTER), g1), Mul(I(SCATTER), g2)>>)

MaxBalls  == 2      \* clicks are taken while fewer balls are in the collection
MaxFrames == 3      \* animation frames requested in a run

Widths      == {400, 800}           \* canvas.clientWidth
ClickXs     == {I(0), I(200)}       \* event.clientX - rect.left
ClickYs     == {I(0)}               \* rect.bottom - event.clientY
\* what the two gaussianApproximation() calls of one addBall return, each in
\* [-3, 3]
Scatters    == {<<I(2), I(-2)>>}
\* milliseconds between two readings of the clock
FrameMillis == {0, 500}

\* the clicks whose ball has the square of a rational as its discriminant
Clicks ==
    {c \in ClickXs \X ClickYs \X Scatters :
        IsSquare(Discriminant(addBall(<<>>, c[1], c[2], c[3][1], c[3][2])[1]))}

\* requestAnimationFrame(cb): the callback is queued under a fresh non-zero id
requestAnimationFrame ==
    /\ nextId <= MaxFrames
    /\ pending' = pending \cup {nextId}
    /\ callbackId' = nextId
    /\ nextId' = nextId + 1

InitUI ==
    /\ SimIdle
    /\ MathIdle
    /\ balls = <<>>
    /\ width \in Widths          \* main() ends with ui.handleResize()
    /\ callbackId = 0
    /\ lastTimestamp = 0
    /\ now = 1000
    /\ pending = {}
    /\ nextId = 1
    /\ drawn = [integrated |-> <<>>, balls |-> <<>>, width |-> 0]
    /\ lastOp = "none"

handleResize ==
    /\ \E w \in Widths : width' = w
    /\ lastOp' = "handleResize"
    /\ UNCHANGED <<balls, callbackId, lastTimestamp, now, pending, nextId, drawn>>
    /\ UNCHANGED <<simVars, mathVars>>

\* handleClick requesting a frame on every click, without the callbackId test
\* of startSimulationIfNeeded
handleClick_AlwaysSchedules ==
    /\ Len(balls) < MaxBalls
    /\ \E c \in Clicks : balls' = addBall(balls, c[1], c[2], c[3][1], c[3][2])
    /\ requestAnimationFrame
    /\ lastOp' = "handleClick"
    /\ UNCHANGED <<width, lastTimestamp, now, drawn>>
    /\ UNCHANGED <<simVars, mathVars>>

\* handleClick: addBall, then startSimulationIfNeeded
handleClick ==
    /\ Len(balls) < MaxBalls
    /\ \E c \in Clicks : balls' = addBall(balls, c[1], c[2], c[3][1], c[3][2])
    /\ IF Falsy(callbackId)
       THEN requestAnimationFrame
       ELSE UNCHANGED <<callbackId, pending, nextId>>
    /\ lastOp' = "handleClick"
    /\ UNCHANGED <<width, lastTimestamp, now, drawn>>
    /\ UNCHANGED <<simVars, mathVars>>

\* the browser runs a pending animation-frame callback: doSimulation
doSimulation ==
    \E id \in pending, elapsed \in FrameMillis :
        LET t          == now + elapsed                  \* Date.now()
            last       == IF Falsy(lastTimestamp) THEN t ELSE lastTimestamp
            duration   == t - last
            integrated == simulateManyBalls(balls, Div(I(duration), I(1000)))
            kept       == garbageCollect(width, integrated)
        IN  /\ now' = t
            /\ balls' = kept
            /\ drawn' = [integrated |-> integrated, balls |-> kept, width |-> width]
            /\ IF Len(kept) = 0
               THEN /\ lastTimestamp' = 0
                    /\ callbackId' = 0
                    /\ pending' = pending \ {id}
                    /\ nextId' = nextId
               ELSE /\ lastTimestamp' = t
                    /\ nextId <= MaxFrames
                    /\ callbackId' = nextId
                    /\ pending' = (pending \ {id}) \cup {nextId}
                    /\ nextId' = nextId + 1
            /\ lastOp' = "doSimulation"
            /\ UNCHANGED width
            /\ UNCHANGED <<simVars, mathVars>>

NextUI ==
    \/ handleResize
    \/ handleClick
    \/ doSimulation

SpecUI == InitUI /\ [][NextUI]_vars

----------------------------------------------------------------------------
(* Claims about the UserInterface, checked under SpecUI *)

\* the balls of bs with 0 < x < w, in their order
RECURSIVE KeepInView(_, _)
KeepInView(bs, w) ==
    IF bs = <<>> THEN <<>>
    ELSE IF Lt(Zero, Head(bs)[1]) /\ Lt(Head(bs)[1], I(w))
         THEN <<Head(bs)>> \o KeepInView(Tail(bs), w)
         ELSE KeepInView(Tail(bs), w)

\* C9: a tick integrates, culls, then draws: the balls drawn are exactly the
\* integrated balls with 0 < x < canvas.width, in their order, and they are
\* the collection at the end of the tick; so every ball drawn, and every
\* ball left at the end of a tick, has 0 < x < canvas.width.
C9_CulledThenDrawn ==
    /\ \A i \in DOMAIN drawn.balls :
          Lt(Zero, drawn.balls[i][1]) /\ Lt(drawn.balls[i][1], I(drawn.width))
    /\ drawn.balls = KeepInView(drawn.integrated, drawn.width)
    /\ (lastOp = "doSimulation" =>
          /\ balls = drawn.balls
          /\ width = drawn.width
          /\ \A i \in DOMAIN balls :
                Lt(Zero, balls[i][1]) /\ Lt(balls[i][1], I(width)))

\* C9 witness: a tick that dropped a ball which had left the canvas and drew
\* the one that was still in view.
C9_Witness ==
    /\ lastOp = "doSimulation"
    /\ Len(drawn.integrated) = 2
    /\ Len(balls) = 1
    /\ ~Lt(drawn.integrated[1][1], I(width))

\* C11: after any interleaving of clicks and animation-frame callbacks at
\* most one callback is pending, it is the one callbackId names, and exactly
\* one is pending whenever the collection is non-empty; a tick that leaves
\* the collection empty clears callbackId and lastTimestamp and schedules
\* nothing.
C11_OneFramePending ==
    /\ Cardinality(pending) <= 1
    /\ pending = (IF Falsy(callbackId) THEN {} ELSE {callbackId})
    /\ (balls # <<>> => Cardinality(pending) = 1)
    /\ ((lastOp = "doSimulation" /\ balls = <<>>) =>
          /\ Falsy(callbackId)
          /\ Falsy(lastTimestamp)
          /\ pending = {})

\* C11 witness: the loop had run and stopped on an empty collection, and a
\* click has restarted it with one fresh callback.
C11_Witness ==
    /\ lastOp = "handleClick"
    /\ Len(balls) = 1
    /\ drawn.integrated # <<>>
    /\ drawn.balls = <<>>
    /\ Falsy(lastTimestamp)
    /\ callbackId > 1
    /\ pending = {callbackId}

=============================================================================
